---- MODULE Spec2Model ----
(***************************************************************************)
(* The self-refreshing access token of refresh.go: Token (a goroutine that *)
(* owns the token and hands it out over an unbuffered channel from a       *)
(* select loop) and MToken (the same loop writing fields guarded by a      *)
(* sync.RWMutex).  Durations are in milliseconds.  A timer made by         *)
(* time.After(d) is kept as the time that remains until it fires; it is    *)
(* ready once that time is <= 0.                                           *)
(***************************************************************************)
EXTENDS Integers, FiniteSets, Sequences, TLC

VARIABLES
    impl,        \* which constructor built the cell: "Token", "MToken" or a draft
    pc,          \* position of the refreshToken goroutine
    token,       \* refreshToken's token / m.token
    err,         \* refreshToken's err / m.tokenErr
    expiration,  \* refreshToken's expiration
    expired,     \* the timer channel `expired`: time left until it fires
    done,        \* ctx.Done() is closed
    mu,          \* m.mu: the writer's state and the readers holding RLock
    inflight,    \* calls of authorize() that have begun and not returned
    nStarted,    \* calls of authorize() begun so far
    nDone,       \* calls of authorize() returned so far
    tokenGen,    \* history: the call (1, 2, ...) whose result token/err hold
    lastCall,    \* history: what the most recently returned call returned
    rpc,         \* position of each client inside Get()
    began,       \* history: nDone when the client's pending Get() began
    got,         \* the tokenResponse / pair the client's last Get() returned
    recording,   \* whether shown and firstOk are kept (fixed per behaviour)
    shown,       \* history (Token): Err handed off since the last call returned
    firstOk,     \* history (Token): the first call that returned no error
    clock,       \* the fake clock of the test scenario; 0 elsewhere
    errCh        \* the buffered err channel of the earliest draft; empty elsewhere

(* The history and scenario variables that the program's steps leave alone. *)
hist == <<recording, shown, firstOk, clock>>

vars == <<impl, errCh, pc, token, err, expiration, expired, done, mu, inflight,
          nStarted, nDone, tokenGen, lastCall, rpc, began, got, hist>>

----------------------------------------------------------------------------
(* Bounds of the model *)

NumClients == 2
MaxCalls == 3
Quantum == 5
ShortLife == 5
LongLife == 20

(* Constants of the program *)

lifeSpanSafetyMargin == 10
tokenLifeSpan == 100

Clients == 1..NumClients
Tokens == {"A", "B"}
Errors == {"E1", "E2"}
Nil == "nil"
Lifespans == {ShortLife, LongLife}

Max(a, b) == IF a >= b THEN a ELSE b

(* What an arbitrary auth function passed to NewToken may return. *)
AuthResults ==
    {[tok |-> t, life |-> l, err |-> Nil] : t \in Tokens, l \in Lifespans}
        \cup {[tok |-> "", life |-> l, err |-> e] : l \in Lifespans, e \in Errors}

(* What authFunc returns: a fresh token or "" with an error, and always    *)
(* tokenLifeSpan.                                                          *)
authFunc ==
    {[tok |-> t, life |-> tokenLifeSpan, err |-> Nil] : t \in Tokens}
        \cup {[tok |-> "", life |-> tokenLifeSpan, err |-> e] : e \in Errors}

tokenResponse(t, e) == [Token |-> t, Err |-> e]

NoResponse == [Token |-> "", Err |-> "none"]
NoCall == [tok |-> "", err |-> "none"]

(* time.After(d): the channel becomes ready after d; at once when d <= 0.   *)
(* The time left is not followed below -Quantum.                           *)
After(d) == Max(d, 0 - Quantum)

TimerReady == expired <= 0

(* Variant: the constructor makes the first call of authorize() itself and *)
(* returns when the loop is at its select.                                 *)
ConstructedAfterFetch ==
    /\ impl \in {"Token", "MToken"}
    /\ pc = "select"
    /\ \E res \in authFunc :
         /\ token = res.tok
         /\ err = res.err
         /\ expiration = res.life
         /\ expired = After(res.life - lifeSpanSafetyMargin)
         /\ lastCall = [tok |-> res.tok, err |-> res.err]
    /\ done = FALSE
    /\ mu = [w |-> "free", readers |-> {}]
    /\ inflight = 0
    /\ nStarted = 1
    /\ nDone = 1
    /\ tokenGen = 1
    /\ rpc = [c \in Clients |-> "idle"]
    /\ began = [c \in Clients |-> 0]
    /\ got = [c \in Clients |-> NoResponse]
    /\ shown = "none"
    /\ firstOk = 0
    /\ clock = 0
    /\ errCh = <<>>

(* NewToken / NewMToken have returned: the struct is built and the         *)
(* goroutine is started with `go`; it has not run yet.                     *)
Constructed ==
    /\ impl \in {"Token", "MToken"}
    /\ pc = "start"
    /\ token = ""
    /\ err = Nil
    /\ expiration = 0
    /\ expired = 0
    /\ done = FALSE
    /\ mu = [w |-> "free", readers |-> {}]
    /\ inflight = 0
    /\ nStarted = 0
    /\ nDone = 0
    /\ tokenGen = 0
    /\ lastCall = NoCall
    /\ rpc = [c \in Clients |-> "idle"]
    /\ began = [c \in Clients |-> 0]
    /\ got = [c \in Clients |-> NoResponse]
    /\ shown = "none"
    /\ firstOk = 0
    /\ clock = 0
    /\ errCh = <<>>

Init == Constructed /\ recording = FALSE

----------------------------------------------------------------------------
(* Token: the channel version *)

(* Variant: the loop is entered before any fetch, with a timer that fires  *)
(* at once (expired := time.After(0)), as the APIClient drafts do.         *)
StartLazy ==
    /\ impl = "Token"
    /\ pc = "start"
    /\ pc' = "select"
    /\ expired' = After(0)
    /\ UNCHANGED <<impl, errCh, token, err, expiration, done, mu, inflight, nStarted,
                   nDone, tokenGen, lastCall, rpc, began, got, hist>>

(* go a.refreshToken(ctx): the goroutine runs and calls a.authorize().     *)
Start ==
    /\ impl = "Token"
    /\ pc = "start"
    /\ pc' = "call"
    /\ inflight' = inflight + 1
    /\ nStarted' = nStarted + 1
    /\ UNCHANGED <<impl, errCh, token, err, expiration, expired, done, mu, nDone,
                   tokenGen, lastCall, rpc, began, got, hist>>

(* Variant: a failed call leaves the previous token and error in place.    *)
AuthorizeReturnKeepStale(res) ==
    /\ impl = "Token"
    /\ pc = "call"
    /\ token' = IF res.err = Nil THEN res.tok ELSE token
    /\ expiration' = res.life
    /\ err' = IF res.err = Nil THEN res.err ELSE err
    /\ expired' = After(res.life - lifeSpanSafetyMargin)
    /\ pc' = "select"
    /\ inflight' = inflight - 1
    /\ nDone' = nDone + 1
    /\ tokenGen' = IF res.err = Nil THEN nDone + 1 ELSE tokenGen
    /\ lastCall' = [tok |-> res.tok, err |-> res.err]
    /\ shown' = "none"
    /\ firstOk' = IF recording /\ firstOk = 0 /\ res.err = Nil
                  THEN nDone + 1 ELSE firstOk
    /\ UNCHANGED <<impl, errCh, done, mu, nStarted, rpc, began, got, recording,
                   clock>>

(* Variant: a failed call makes the loop return, as the earliest draft     *)
(* does (a.err <- err; return).                                            *)
AuthorizeReturnExitOnError(res) ==
    /\ impl = "Token"
    /\ pc = "call"
    /\ token' = res.tok
    /\ expiration' = res.life
    /\ err' = res.err
    /\ expired' = After(res.life - lifeSpanSafetyMargin)
    /\ pc' = IF res.err # Nil THEN "stopped" ELSE "select"
    /\ inflight' = inflight - 1
    /\ nDone' = nDone + 1
    /\ tokenGen' = nDone + 1
    /\ lastCall' = [tok |-> res.tok, err |-> res.err]
    /\ shown' = "none"
    /\ firstOk' = IF recording /\ firstOk = 0 /\ res.err = Nil
                  THEN nDone + 1 ELSE firstOk
    /\ UNCHANGED <<impl, errCh, done, mu, nStarted, rpc, began, got, recording,
                   clock>>

(* Variant: a successful call stores the token but leaves an earlier error *)
(* in err.                                                                 *)
AuthorizeReturnStickyErr(res) ==
    /\ impl = "Token"
    /\ pc = "call"
    /\ token' = res.tok
    /\ expiration' = res.life
    /\ err' = IF res.err = Nil THEN err ELSE res.err
    /\ expired' = After(res.life - lifeSpanSafetyMargin)
    /\ pc' = "select"
    /\ inflight' = inflight - 1
    /\ nDone' = nDone + 1
    /\ tokenGen' = nDone + 1
    /\ lastCall' = [tok |-> res.tok, err |-> res.err]
    /\ shown' = "none"
    /\ firstOk' = IF recording /\ firstOk = 0 /\ res.err = Nil
                  THEN nDone + 1 ELSE firstOk
    /\ UNCHANGED <<impl, errCh, done, mu, nStarted, rpc, began, got, recording,
                   clock>>

(* Variant: the timer is set to nine tenths of the returned lifespan.      *)
AuthorizeReturnNinetyPercent(res) ==
    /\ impl = "Token"
    /\ pc = "call"
    /\ token' = res.tok
    /\ expiration' = res.life
    /\ err' = res.err
    /\ expired' = After((9 * res.life) \div 10)
    /\ pc' = "select"
    /\ inflight' = inflight - 1
    /\ nDone' = nDone + 1
    /\ tokenGen' = nDone + 1
    /\ lastCall' = [tok |-> res.tok, err |-> res.err]
    /\ shown' = "none"
    /\ firstOk' = IF recording /\ firstOk = 0 /\ res.err = Nil
                  THEN nDone + 1 ELSE firstOk
    /\ UNCHANGED <<impl, errCh, done, mu, nStarted, rpc, began, got, recording,
                   clock>>

(* Variant: a call that returns after ctx was cancelled is dropped and the *)
(* loop returns, as with authorize(ctx) and a check of ctx.Err().          *)
AuthorizeReturnAbortable(res) ==
    /\ impl = "Token"
    /\ pc = "call"
    /\ token' = IF done THEN token ELSE res.tok
    /\ expiration' = IF done THEN expiration ELSE res.life
    /\ err' = IF done THEN err ELSE res.err
    /\ expired' = IF done THEN expired
                  ELSE After(res.life - lifeSpanSafetyMargin)
    /\ pc' = IF done THEN "stopped" ELSE "select"
    /\ inflight' = inflight - 1
    /\ nDone' = nDone + 1
    /\ tokenGen' = IF done THEN tokenGen ELSE nDone + 1
    /\ lastCall' = [tok |-> res.tok, err |-> res.err]
    /\ shown' = "none"
    /\ firstOk' = IF recording /\ firstOk = 0 /\ res.err = Nil
                  THEN nDone + 1 ELSE firstOk
    /\ UNCHANGED <<impl, errCh, done, mu, nStarted, rpc, began, got, recording,
                   clock>>

(* a.authorize() returns res; the three variables are assigned and the     *)
(* timer is set anew; the loop enters (or re-enters) the select.           *)
AuthorizeReturn(res) ==
    /\ impl = "Token"
    /\ pc = "call"
    /\ token' = res.tok
    /\ expiration' = res.life
    /\ err' = res.err
    /\ expired' = After(res.life - lifeSpanSafetyMargin)
    /\ pc' = "select"
    /\ inflight' = inflight - 1
    /\ nDone' = nDone + 1
    /\ tokenGen' = nDone + 1
    /\ lastCall' = [tok |-> res.tok, err |-> res.err]
    /\ shown' = "none"
    /\ firstOk' = IF recording /\ firstOk = 0 /\ res.err = Nil
                  THEN nDone + 1 ELSE firstOk
    /\ UNCHANGED <<impl, errCh, done, mu, nStarted, rpc, began, got, recording,
                   clock>>

(* Variant: the refresh is started with `go` and the loop goes on          *)
(* selecting on the timer that has fired.                                  *)
ExpiredAsync ==
    /\ impl = "Token"
    /\ pc = "select"
    /\ TimerReady
    /\ nStarted < MaxCalls
    /\ inflight' = inflight + 1
    /\ nStarted' = nStarted + 1
    /\ UNCHANGED <<impl, errCh, pc, token, err, expiration, expired, done, mu, nDone,
                   tokenGen, lastCall, rpc, began, got, hist>>

(* Variant: the loop refreshes without waiting for the timer, on any pass  *)
(* through the select.                                                     *)
ExpiredEager ==
    /\ impl = "Token"
    /\ pc = "select"
    /\ nStarted < MaxCalls
    /\ pc' = "call"
    /\ inflight' = inflight + 1
    /\ nStarted' = nStarted + 1
    /\ UNCHANGED <<impl, errCh, token, err, expiration, expired, done, mu, nDone,
                   tokenGen, lastCall, rpc, began, got, hist>>

(* case <-expired: the timer has fired; a.authorize() is called.           *)
Expired ==
    /\ impl = "Token"
    /\ pc = "select"
    /\ TimerReady
    /\ nStarted < MaxCalls
    /\ pc' = "call"
    /\ inflight' = inflight + 1
    /\ nStarted' = nStarted + 1
    /\ UNCHANGED <<impl, errCh, token, err, expiration, expired, done, mu, nDone,
                   tokenGen, lastCall, rpc, began, got, hist>>

(* Variant: the select prefers the timer, and the send case proceeds only  *)
(* while the timer has not fired.                                          *)
SendReadyUnlessExpired(c) ==
    pc = "select" /\ rpc[c] = "waiting" /\ ~TimerReady

(* Variant: the channel is served after the loop has returned, as by a     *)
(* deferred send or a second goroutine.                                    *)
SendReadyAfterStop(c) == pc \in {"select", "stopped"} /\ rpc[c] = "waiting"

(* Variant: the value can be taken while authorize() is running, as with   *)
(* a field read without synchronisation.                                   *)
SendReadyDuringCall(c) == pc \in {"select", "call"} /\ rpc[c] = "waiting"

(* The send case of the select can proceed: client c is receiving.         *)
SendReady(c) == pc = "select" /\ rpc[c] = "waiting"

(* Variant: the send case carries the token alone, as the singleflight     *)
(* draft does (case a.tok <- tokenResponse{Token: token}).                 *)
ServeTokenOnly(c) ==
    /\ impl = "Token"
    /\ SendReady(c)
    /\ got' = [got EXCEPT ![c] = tokenResponse(token, Nil)]
    /\ rpc' = [rpc EXCEPT ![c] = "returned"]
    /\ began' = [began EXCEPT ![c] = 0]
    /\ shown' = IF recording THEN Nil ELSE shown
    /\ UNCHANGED <<impl, errCh, pc, token, err, expiration, expired, done, mu,
                   inflight, nStarted, nDone, tokenGen, lastCall, recording,
                   firstOk, clock>>

(* Variant: handing off a response sets the timer anew, so that reads      *)
(* postpone the next refresh.                                              *)
ServeRearming(c) ==
    /\ impl = "Token"
    /\ SendReady(c)
    /\ got' = [got EXCEPT ![c] = tokenResponse(token, err)]
    /\ rpc' = [rpc EXCEPT ![c] = "returned"]
    /\ began' = [began EXCEPT ![c] = 0]
    /\ expired' = After(expiration - lifeSpanSafetyMargin)
    /\ shown' = IF recording THEN err ELSE shown
    /\ UNCHANGED <<impl, errCh, pc, token, err, expiration, done, mu,
                   inflight, nStarted, nDone, tokenGen, lastCall, recording,
                   firstOk, clock>>

(* Variant: one send reaches every client that is receiving, as closing    *)
(* the channel or a broadcast does.                                        *)
ServeBroadcast(c) ==
    /\ impl = "Token"
    /\ SendReady(c)
    /\ got' = [d \in Clients |-> IF rpc[d] = "waiting"
                                 THEN tokenResponse(token, err) ELSE got[d]]
    /\ rpc' = [d \in Clients |-> IF rpc[d] = "waiting"
                                 THEN "returned" ELSE rpc[d]]
    /\ began' = [d \in Clients |-> IF rpc[d] = "waiting" THEN 0 ELSE began[d]]
    /\ shown' = IF recording THEN err ELSE shown
    /\ UNCHANGED <<impl, errCh, pc, token, err, expiration, expired, done, mu,
                   inflight, nStarted, nDone, tokenGen, lastCall, recording,
                   firstOk, clock>>

(* case a.accessToken <- tokenResponse{Token: token, Err: err}, met by     *)
(* t := <-a.accessToken in Get(), which then returns t.Token, t.Err.       *)
Serve(c) ==
    /\ impl = "Token"
    /\ SendReady(c)
    /\ got' = [got EXCEPT ![c] = tokenResponse(token, err)]
    /\ rpc' = [rpc EXCEPT ![c] = "returned"]
    /\ began' = [began EXCEPT ![c] = 0]
    /\ shown' = IF recording THEN err ELSE shown
    /\ UNCHANGED <<impl, errCh, pc, token, err, expiration, expired, done, mu,
                   inflight, nStarted, nDone, tokenGen, lastCall, recording,
                   firstOk, clock>>

(* Variant: the ctx.Done() case is taken only when no client is receiving. *)
StopWhenIdle ==
    /\ impl = "Token"
    /\ pc = "select"
    /\ done
    /\ \A c \in Clients : rpc[c] # "waiting"
    /\ pc' = "stopped"
    /\ UNCHANGED <<impl, errCh, token, err, expiration, expired, done, mu, inflight,
                   nStarted, nDone, tokenGen, lastCall, rpc, began, got,
                   hist>>

(* Variant: on ctx.Done() the loop clears the token before it returns.     *)
StopClearing ==
    /\ impl = "Token"
    /\ pc = "select"
    /\ done
    /\ pc' = "stopped"
    /\ token' = ""
    /\ UNCHANGED <<impl, errCh, err, expiration, expired, done, mu, inflight,
                   nStarted, nDone, tokenGen, lastCall, rpc, began, got,
                   hist>>

(* case <-ctx.Done(): return *)
Stop ==
    /\ impl = "Token"
    /\ pc = "select"
    /\ done
    /\ pc' = "stopped"
    /\ UNCHANGED <<impl, errCh, token, err, expiration, expired, done, mu, inflight,
                   nStarted, nDone, tokenGen, lastCall, rpc, began, got,
                   hist>>

----------------------------------------------------------------------------
(* MToken: the mutex version *)

(* go m.refreshToken(ctx): the goroutine runs and calls m.mu.Lock(); from  *)
(* now on RLock() admits no new reader.                                    *)
MStart ==
    /\ impl = "MToken"
    /\ pc = "start"
    /\ pc' = "locking"
    /\ mu' = [mu EXCEPT !.w = "pending"]
    /\ UNCHANGED <<impl, errCh, token, err, expiration, expired, done, inflight,
                   nStarted, nDone, tokenGen, lastCall, rpc, began, got,
                   hist>>

(* m.mu.Lock() returns once no reader holds the lock; m.authorize() is     *)
(* called with the write lock held.                                        *)
MLock ==
    /\ impl = "MToken"
    /\ pc = "locking"
    /\ mu.readers = {}
    /\ mu' = [mu EXCEPT !.w = "held"]
    /\ pc' = "call"
    /\ inflight' = inflight + 1
    /\ nStarted' = nStarted + 1
    /\ UNCHANGED <<impl, errCh, token, err, expiration, expired, done, nDone,
                   tokenGen, lastCall, rpc, began, got, hist>>

(* m.authorize() returns res into m.token, expiration, m.tokenErr;         *)
(* m.mu.Unlock(); the timer is set anew and the loop enters the select.    *)
MAuthorizeReturn(res) ==
    /\ impl = "MToken"
    /\ pc = "call"
    /\ token' = res.tok
    /\ expiration' = res.life
    /\ err' = res.err
    /\ mu' = [mu EXCEPT !.w = "free"]
    /\ expired' = After(res.life - lifeSpanSafetyMargin)
    /\ pc' = "select"
    /\ inflight' = inflight - 1
    /\ nDone' = nDone + 1
    /\ tokenGen' = nDone + 1
    /\ lastCall' = [tok |-> res.tok, err |-> res.err]
    /\ UNCHANGED <<impl, errCh, done, nStarted, rpc, began, got, hist>>

(* case <-expired: the timer has fired; m.mu.Lock() is called.             *)
MExpired ==
    /\ impl = "MToken"
    /\ pc = "select"
    /\ TimerReady
    /\ nStarted < MaxCalls
    /\ pc' = "locking"
    /\ mu' = [mu EXCEPT !.w = "pending"]
    /\ UNCHANGED <<impl, errCh, token, err, expiration, expired, done, inflight,
                   nStarted, nDone, tokenGen, lastCall, rpc, began, got,
                   hist>>

(* case <-ctx.Done(): return *)
MStop ==
    /\ impl = "MToken"
    /\ pc = "select"
    /\ done
    /\ pc' = "stopped"
    /\ UNCHANGED <<impl, errCh, token, err, expiration, expired, done, mu, inflight,
                   nStarted, nDone, tokenGen, lastCall, rpc, began, got,
                   hist>>

(* Variant: Get() reads without regard to the writer, as a read of the     *)
(* fields with no RLock() does.                                            *)
MRLockUnguarded(c) ==
    /\ impl = "MToken"
    /\ rpc[c] = "waiting"
    /\ mu' = [mu EXCEPT !.readers = @ \cup {c}]
    /\ rpc' = [rpc EXCEPT ![c] = "reading"]
    /\ UNCHANGED <<impl, errCh, pc, token, err, expiration, expired, done, inflight,
                   nStarted, nDone, tokenGen, lastCall, began, got, hist>>

(* m.mu.RLock() in Get(): granted unless a writer holds or awaits the lock. *)
MRLock(c) ==
    /\ impl = "MToken"
    /\ rpc[c] = "waiting"
    /\ mu.w = "free"
    /\ mu' = [mu EXCEPT !.readers = @ \cup {c}]
    /\ rpc' = [rpc EXCEPT ![c] = "reading"]
    /\ UNCHANGED <<impl, errCh, pc, token, err, expiration, expired, done, inflight,
                   nStarted, nDone, tokenGen, lastCall, began, got, hist>>

(* Variant: Get() looks at the context and returns an error once it is    *)
(* cancelled.                                                              *)
MGetReturnStopAware(c) ==
    /\ impl = "MToken"
    /\ rpc[c] = "reading"
    /\ got' = [got EXCEPT ![c] = IF done THEN tokenResponse("", "E1")
                                 ELSE tokenResponse(token, err)]
    /\ mu' = [mu EXCEPT !.readers = @ \ {c}]
    /\ rpc' = [rpc EXCEPT ![c] = "returned"]
    /\ began' = [began EXCEPT ![c] = 0]
    /\ UNCHANGED <<impl, errCh, pc, token, err, expiration, expired, done, inflight,
                   nStarted, nDone, tokenGen, lastCall, hist>>

(* return m.token, m.tokenErr, and the deferred m.mu.RUnlock().            *)
MGetReturn(c) ==
    /\ impl = "MToken"
    /\ rpc[c] = "reading"
    /\ got' = [got EXCEPT ![c] = tokenResponse(token, err)]
    /\ mu' = [mu EXCEPT !.readers = @ \ {c}]
    /\ rpc' = [rpc EXCEPT ![c] = "returned"]
    /\ began' = [began EXCEPT ![c] = 0]
    /\ UNCHANGED <<impl, errCh, pc, token, err, expiration, expired, done, inflight,
                   nStarted, nDone, tokenGen, lastCall, hist>>

----------------------------------------------------------------------------
(* The environment: clients, the context, the clock *)

(* Variant: Get() calls authorize() itself when it finds the timer fired,  *)
(* as a cell that refreshes on demand does.                                *)
GetBeginRefreshing(c) ==
    /\ rpc[c] \in {"idle", "returned"}
    /\ rpc' = [rpc EXCEPT ![c] = "waiting"]
    /\ began' = [began EXCEPT ![c] = nDone]
    /\ got' = [got EXCEPT ![c] = NoResponse]
    /\ nStarted' = IF pc = "select" /\ TimerReady /\ nStarted < MaxCalls
                   THEN nStarted + 1 ELSE nStarted
    /\ nDone' = nDone + (nStarted' - nStarted)
    /\ UNCHANGED <<impl, errCh, pc, token, err, expiration, expired, done, mu,
                   inflight, tokenGen, lastCall, hist>>

(* A client calls Get(). *)
GetBegin(c) ==
    /\ rpc[c] \in {"idle", "returned"}
    /\ rpc' = [rpc EXCEPT ![c] = "waiting"]
    /\ began' = [began EXCEPT ![c] = nDone]
    /\ got' = [got EXCEPT ![c] = NoResponse]
    /\ UNCHANGED <<impl, errCh, pc, token, err, expiration, expired, done, mu,
                   inflight, nStarted, nDone, tokenGen, lastCall, hist>>

(* cancel() of the context passed to the constructor. *)
Cancel ==
    /\ ~done
    /\ done' = TRUE
    /\ UNCHANGED <<impl, errCh, pc, token, err, expiration, expired, mu, inflight,
                   nStarted, nDone, tokenGen, lastCall, rpc, began, got,
                   hist>>

(* Time passes.  Only a set timer is followed (while authorize() runs the  *)
(* loop holds none), and nothing the program does depends on how much of   *)
(* a pending timer's delay is left, so the clock moves from event to       *)
(* event: up to the instant the pending timer fires, and from there on by  *)
(* one quantum.                                                            *)
TimeStep == IF expired > 0 THEN expired ELSE Quantum

Tick ==
    /\ pc = "select"
    /\ expired > 0 - Quantum
    /\ expired' = After(expired - TimeStep)
    /\ UNCHANGED <<impl, errCh, pc, token, err, expiration, done, mu, inflight,
                   nStarted, nDone, tokenGen, lastCall, rpc, began, got,
                   hist>>

Next ==
    \/ Start
    \/ \E res \in AuthResults : AuthorizeReturn(res)
    \/ Expired
    \/ \E c \in Clients : Serve(c)
    \/ Stop
    \/ MStart
    \/ MLock
    \/ \E res \in authFunc : MAuthorizeReturn(res)
    \/ MExpired
    \/ MStop
    \/ \E c \in Clients : MRLock(c)
    \/ \E c \in Clients : MGetReturn(c)
    \/ \E c \in Clients : GetBegin(c)
    \/ Cancel
    \/ Tick

Spec == Init /\ [][Next]_vars

----------------------------------------------------------------------------
(* Token alone, with the scheduling the liveness claims assume: the        *)
(* goroutine gets to run, every call of authorize() returns, and a select  *)
(* case that is ready again and again is taken in the end (Go's select     *)
(* chooses uniformly at random among the ready cases).                     *)

TokenInit == Init /\ impl = "Token"

TokenNext ==
    \/ Start
    \/ \E res \in AuthResults : AuthorizeReturn(res)
    \/ Expired
    \/ \E c \in Clients : Serve(c)
    \/ Stop
    \/ \E c \in Clients : GetBegin(c)
    \/ Cancel
    \/ Tick

(* Token alone with the history of handoffs and of the first success kept. *)
HistInit == Constructed /\ impl = "Token" /\ recording = TRUE

HistSpec == HistInit /\ [][TokenNext]_vars

FairSpec ==
    /\ TokenInit
    /\ [][TokenNext]_vars
    /\ WF_vars(Start)
    /\ WF_vars(\E res \in AuthResults : AuthorizeReturn(res))
    /\ SF_vars(Stop)

----------------------------------------------------------------------------
(* Properties *)

(* The step in which a Get() on a Token receives from the channel. *)
Served(c) == impl = "Token" /\ rpc[c] = "waiting" /\ rpc'[c] = "returned"

(* The pair of the most recently returned call, as Get() returns it. *)
LastResult == tokenResponse(lastCall.tok, lastCall.err)

(* C1: freshness. No Get() on a Token receives a credential whose refresh  *)
(* point (completion of its fetch + validFor - safetyMargin) lies before   *)
(* the instant of the receive: whenever a token is handed off, the time    *)
(* left on the timer set at that completion is not negative.               *)
C1_Freshness ==
    [][\A c \in Clients : (Served(c) /\ err = Nil) => expired >= 0]_vars

(* C2: single-flight. In every state at most one call of the Authorizer is *)
(* in flight, and the calls in flight are exactly those begun and not yet  *)
(* returned, so that no call begins before the previous one has returned.  *)
C2_SingleFlight ==
    /\ inflight \in {0, 1}
    /\ inflight = nStarted - nDone

C2_Witness ==
    /\ inflight = 1
    /\ nStarted >= 2
    /\ \A c \in Clients : rpc[c] = "waiting"

(* C3 as claimed: once the initial fetch of a Token has completed, a       *)
(* pending Get() never has to wait for a call in flight: whenever a Get()  *)
(* is pending and the loop has not stopped, the handoff can take place.    *)
C3_NeverWaitsForCall ==
    \A c \in Clients :
        (impl = "Token" /\ nDone >= 1 /\ rpc[c] = "waiting" /\ pc # "stopped")
            => SendReady(c)

(* C3 as amended: once the initial fetch has completed, a pending Get()    *)
(* can be served whenever the loop is in its select, and it is served from *)
(* the slot already fetched; no Get() is served while a call is in flight, *)
(* so a Get() pending during a refresh waits for that call to return.      *)
C3_ServedOnlyBetweenCalls ==
    [][\A c \in Clients :
          /\ (impl = "Token" /\ nDone >= 1 /\ rpc[c] = "waiting" /\ pc = "select")
                => ENABLED Serve(c)
          /\ Served(c) => /\ inflight = 0
                          /\ pc = "select" /\ pc' = "select"
                          /\ got'[c] = tokenResponse(token, err)]_vars

C3_Witness ==
    /\ impl = "Token"
    /\ pc = "call"
    /\ inflight = 1
    /\ \E c \in Clients : rpc[c] = "waiting" /\ began[c] >= 1

(* C4 as claimed: a Get() issued while the initial fetch of a Token is in  *)
(* flight receives that fetch's result.                                    *)
C4_ReceivesInitialResult ==
    [][\A c \in Clients : (Served(c) /\ began[c] = 0) => tokenGen = 1]_vars

(* C4 as amended: no Get() on a Token completes before the first call has  *)
(* returned; a Get() issued while the initial fetch is in flight stays     *)
(* pending and then receives the result of the call that returned last     *)
(* before the handoff: the initial fetch's, or a later refresh's.          *)
C4_NothingBeforeInitialFetch ==
    [][/\ (impl = "Token" /\ nDone = 0)
            => \A c \in Clients : rpc[c] # "returned" /\ got[c] = NoResponse
       /\ \A c \in Clients :
            (Served(c) /\ began[c] = 0)
                => /\ nDone >= 1
                   /\ tokenGen = nDone
                   /\ got'[c] = LastResult]_vars

C4_Witness ==
    /\ impl = "Token"
    /\ nDone = 1
    /\ \E c, d \in Clients :
          /\ rpc[c] = "returned" /\ got[c] = LastResult
          /\ rpc[d] = "waiting" /\ began[d] = 0

(* C5: ordering. A Get() on a Token that begins after the n-th call has    *)
(* returned receives the result of the n-th or of a later call.            *)
C5_Ordering ==
    [][\A c \in Clients :
          Served(c) => /\ tokenGen >= began[c]
                       /\ got'[c] = tokenResponse(token, err)]_vars

C5_Witness ==
    /\ impl = "Token"
    /\ nDone >= 2
    /\ tokenGen = nDone
    /\ \E c, d \in Clients :
          /\ rpc[c] = "returned" /\ got[c] = tokenResponse(token, err)
          /\ rpc[d] = "waiting" /\ began[d] = nDone

(* C6: shutdown. Once the cancellation signal has fired, no call of the    *)
(* Authorizer begins any more, for Token and for MToken, also when the     *)
(* expiry timer is ready: stated for the calls the loop makes once the     *)
(* initial fetch has begun.                                                *)
C6_NoCallAfterCancel ==
    [][(done /\ nStarted >= 1) => nStarted' = nStarted]_vars

(* C7: after the cancellation signal has fired, no Get() on a Token        *)
(* returns a credential any more.                                          *)
C7_NoCredentialAfterCancel ==
    [][\A c \in Clients : (done /\ Served(c)) => got'[c].Err # Nil]_vars

(* C8: stoppability. After the cancellation signal has fired, the loop of  *)
(* a Token reaches STOPPED in the end, also while clients keep calling     *)
(* Get().                                                                  *)
C8_Stoppable ==
    (impl = "Token" /\ done) ~> (pc = "stopped")

C8_Witness ==
    /\ impl = "Token"
    /\ pc = "stopped"
    /\ nDone >= 2
    /\ \A c \in Clients : rpc[c] = "waiting"

(* C9: the loop of Token and of MToken is stopped only by cancellation:    *)
(* as long as the signal has not fired the loop has not returned, whatever *)
(* errors the Authorizer returns.                                          *)
C9_StoppedOnlyByCancel ==
    pc = "stopped" => done

C9_Witness ==
    /\ ~done
    /\ nDone >= 2
    /\ lastCall.err \in Errors
    /\ pc = "call"

(* C10: fetch-error propagation. When the call of a Token that returned    *)
(* last returned an error, a Get() served before the next call returns     *)
(* gets exactly that error, with the value that call returned.             *)
C10_ErrorPropagated ==
    [][\A c \in Clients :
          (Served(c) /\ lastCall.err \in Errors) => got'[c] = LastResult]_vars

C10_Witness ==
    /\ impl = "Token"
    /\ nDone >= 2
    /\ lastCall.err \in Errors
    /\ \E c \in Clients : rpc[c] = "returned" /\ got[c] = LastResult

----------------------------------------------------------------------------
(* The step on which a call of authorize() returns (a cycle completes).    *)
Completes == nDone' = nDone + 1

(* C11 as stated: if the call of cycle k returned an error and a Get() is  *)
(* made before cycle k+1 completes (one was served since cycle k           *)
(* completed, or one is pending when cycle k+1 completes), then a Get()    *)
(* has returned the error of cycle k by the time cycle k+1 completes.      *)
C11_SomeGetSeesError ==
    [][(/\ Completes
        /\ lastCall.err \in Errors
        /\ (shown # "none" \/ \E c \in Clients : rpc[c] = "waiting"))
       => shown = lastCall.err]_vars

(* C11, amended: every Get() that is handed a response between the         *)
(* completion of a failed cycle k and the completion of cycle k+1 returns  *)
(* the error of cycle k; nothing is promised to a Get() that is still      *)
(* pending when cycle k+1 completes.                                       *)
C11_ServedGetsSeeError ==
    (recording /\ lastCall.err \in Errors /\ shown # "none")
        => shown = lastCall.err

(* C11: the error of a failed cycle has been handed to a client.           *)
C11_Witness ==
    /\ recording
    /\ nDone >= 1
    /\ lastCall.err \in Errors
    /\ shown = lastCall.err
    /\ \E c \in Clients : rpc[c] = "returned" /\ got[c] = LastResult

----------------------------------------------------------------------------
(* C12 as stated: when the calls of cycles 1..k failed and the call of     *)
(* cycle k+1 (firstOk) succeeded, a Get() issued after cycle k+1 and       *)
(* before cycle k+2 completed returns the credential of cycle k+1 with a   *)
(* nil error.                                                              *)
C12_RetryLiveness ==
    [][\A c \in Clients :
         (Served(c) /\ firstOk >= 2 /\ began[c] = firstOk)
           => /\ tokenGen = firstOk
              /\ got'[c] = tokenResponse(token, Nil)
              /\ got'[c].Token \in Tokens]_vars

(* C12, amended: such a Get() returns the credential of cycle k+1 with a   *)
(* nil error if it is also served before cycle k+2 completes.              *)
C12_RetryWithinCycle ==
    [][\A c \in Clients :
         (Served(c) /\ firstOk >= 2 /\ began[c] = firstOk /\ nDone = firstOk)
           => /\ got'[c] = LastResult
              /\ got'[c].Err = Nil
              /\ got'[c].Token \in Tokens]_vars

(* C12: after failed cycles the first success has been handed to a client  *)
(* before the next cycle completed.                                        *)
C12_Witness ==
    /\ firstOk >= 2
    /\ nDone = firstOk
    /\ shown = Nil
    /\ \E c \in Clients :
         rpc[c] = "returned" /\ got[c] = LastResult /\ got[c].Token \in Tokens

----------------------------------------------------------------------------
(* Both versions with the scheduling C13 assumes once a call has          *)
(* returned: time passes, a timer that has fired is selected in the end    *)
(* (Go's select chooses at random among the ready cases), a reader that    *)
(* holds the read lock releases it, and the goroutine waiting for the      *)
(* write lock gets it once the readers are gone.                           *)
LiveSpec ==
    /\ Init
    /\ [][Next]_vars
    /\ WF_vars(Tick)
    /\ WF_vars(Expired)
    /\ WF_vars(MExpired)
    /\ WF_vars(\E c \in Clients : MGetReturn(c))
    /\ WF_vars(MLock)

(* C13: every call of authorize() that returns, with or without an error,  *)
(* leaves the loop in its select with the timer set from the returned      *)
(* lifespan, and unless the context is cancelled another call begins.      *)
C13_KeepsRetrying ==
    /\ [][Completes => /\ pc' = "select"
                       /\ expiration' \in Lifespans \cup {tokenLifeSpan}
                       /\ expired' = After(expiration' - lifeSpanSafetyMargin)
         ]_vars
    /\ (nDone >= 1 /\ inflight = 0 /\ nStarted < MaxCalls)
         ~> (inflight = 1 \/ done)

(* C13: a call of authorize() that returned an error has been followed by  *)
(* another call.                                                           *)
C13_Witness ==
    /\ ~done
    /\ lastCall.err \in Errors
    /\ nDone >= 1
    /\ nStarted = nDone + 1
    /\ pc = "call"

----------------------------------------------------------------------------
(* Token alone with the scheduling C14 assumes: the goroutine gets to run, *)
(* every call of authorize() returns, and a client whose receive is ready  *)
(* at a select again and again is chosen in the end (select chooses at     *)
(* random among the ready cases; receivers queue in order on the channel). *)
ReaderSpec ==
    /\ TokenInit
    /\ [][TokenNext]_vars
    /\ WF_vars(Start)
    /\ WF_vars(\E res \in AuthResults : AuthorizeReturn(res))
    /\ \A c \in Clients : SF_vars(Serve(c))

(* C14: unless the context is cancelled, every Get() on a Token returns,   *)
(* whichever lifespans the calls return (ShortLife is below the safety     *)
(* margin and leaves the timer ready at every select).                     *)
C14_ReaderLiveness ==
    \A c \in Clients : (rpc[c] = "waiting") ~> (rpc[c] = "returned" \/ done)

(* C14: with a lifespan below the safety margin and the timer fired, a     *)
(* client has been served after a refresh while another is still waiting.  *)
C14_Witness ==
    /\ impl = "Token"
    /\ ~done
    /\ expiration <= lifeSpanSafetyMargin
    /\ TimerReady
    /\ nDone >= 2
    /\ \E c, d \in Clients :
         /\ rpc[c] = "returned" /\ got[c] = LastResult
         /\ rpc[d] = "waiting"

----------------------------------------------------------------------------
(* A step of a client: a Get() is called, takes the read lock, or returns. *)
ClientStep == rpc' # rpc

(* C15: no step of a Get() begins or ends a call of authorize() or moves   *)
(* the loop or its timer; every call begins on a step of the loop          *)
(* (Token or MToken) that enters the call, so the calls made do not depend *)
(* on the Get()s made.                                                     *)
C15_GetNeverAuthorizes ==
    [][/\ ClientStep =>
            UNCHANGED <<nStarted, nDone, inflight, pc, expired, token, err>>
       /\ (nStarted' # nStarted) =>
            /\ ~ClientStep
            /\ pc \in {"start", "select", "locking"}
            /\ pc' = "call"]_vars

(* C15: every client has called Get() and got the result of the one call   *)
(* made so far.                                                            *)
C15_Witness ==
    /\ nStarted = 1
    /\ nDone = 1
    /\ \A c \in Clients : rpc[c] = "returned" /\ got[c] = LastResult

----------------------------------------------------------------------------
(* The step on which client c's Get() returns, on Token or MToken.         *)
Returns(c) == rpc[c] # "returned" /\ rpc'[c] = "returned"

(* C16: every pair a Get() returns is the pair that one call of            *)
(* authorize() returned (the latest one), never a mix of two calls and     *)
(* never a pair that no call returned.                                     *)
C16_NoTornSlot ==
    [][\A c \in Clients :
         Returns(c) => (nDone >= 1 /\ got'[c] = LastResult)]_vars

----------------------------------------------------------------------------
(* The time that has passed since the timer was set, which is when the     *)
(* last call of authorize() returned.                                      *)
SinceArmed == After(expiration - lifeSpanSafetyMargin) - expired

(* C17: when a call returned a lifespan that does not exceed the safety    *)
(* margin, the next call begins only after a positive time has passed.     *)
C17_MinimumInterval ==
    [][(/\ impl = "Token"
        /\ pc = "select"
        /\ pc' = "call"
        /\ expiration <= lifeSpanSafetyMargin)
       => SinceArmed > 0]_vars

----------------------------------------------------------------------------
(* The scenario of a test with a scripted authorize() and a clock that the *)
(* test moves: the first call returns "A", every later one "B", both with  *)
(* tokenLifeSpan and no error, and no call takes time.  Clients call Get() *)
(* at any instant; the clock moves on, by Quantum, only while no Get() is  *)
(* pending and the loop is at its select.                                  *)

(* The instant of the scenario's second read, after the refresh point.     *)
ReadAt == (tokenLifeSpan - lifeSpanSafetyMargin) + Quantum

(* What the scripted authorize() returns on its n-th call.                 *)
Script(n) ==
    [tok |-> IF n = 1 THEN "A" ELSE "B", life |-> tokenLifeSpan, err |-> Nil]

ScenarioAuthorize == AuthorizeReturn(Script(nDone + 1))

ScenarioTick ==
    /\ pc = "select"
    /\ \A c \in Clients : rpc[c] # "waiting"
    /\ clock + Quantum <= ReadAt
    /\ clock' = clock + Quantum
    /\ expired' = After(expired - Quantum)
    /\ UNCHANGED <<impl, errCh, pc, token, err, expiration, done, mu, inflight,
                   nStarted, nDone, tokenGen, lastCall, rpc, began, got,
                   recording, shown, firstOk>>

ScenarioNext ==
    \/ Start
    \/ ScenarioAuthorize
    \/ Expired
    \/ \E c \in Clients : Serve(c)
    \/ \E c \in Clients : GetBegin(c)
    \/ ScenarioTick

ScenarioSpec == TokenInit /\ [][ScenarioNext]_vars

(* C18: in the scenario a Get() at instant 0 returns "A", a Get() at       *)
(* instant ReadAt (95 ms, after the refresh point at 90 ms) returns "B",   *)
(* and no Get() returns an error.                                          *)
C18_Scenario ==
    [][\A c \in Clients :
         Served(c) =>
           /\ got'[c].Err = Nil
           /\ clock = 0 => got'[c].Token = "A"
           /\ clock = ReadAt => got'[c].Token = "B"]_vars

----------------------------------------------------------------------------
(* Client c's Get() was called while the Token loop was serving (a call    *)
(* had returned and none was running) and is still pending there.          *)
PendingSinceServing(c) ==
    /\ impl = "Token"
    /\ pc = "select"
    /\ nDone >= 1
    /\ rpc[c] = "waiting"
    /\ began[c] = nDone

(* C19 as stated: a Get() called while the loop is serving returns before  *)
(* the next call of authorize() begins.                                    *)
C19_ReturnsBeforeNextCall ==
    [][(pc' = "call") => \A c \in Clients : ~PendingSinceServing(c)]_vars

(* C19, amended: a Get() called while the loop is serving can be served at *)
(* once, and the next call of authorize() begins before it is served only  *)
(* when the timer has fired (the select then chooses either case).         *)
C19_WaitsOnlyAfterExpiry ==
    [][\A c \in Clients :
         PendingSinceServing(c) =>
           /\ ENABLED Serve(c)
           /\ (pc' = "call") => TimerReady]_vars

(* C19: a Get() called while the loop is serving is pending with the timer *)
(* still running.                                                          *)
C19_Witness ==
    \E c \in Clients : PendingSinceServing(c) /\ ~TimerReady /\ ~done

----------------------------------------------------------------------------
(* C20: when the constructor has returned no call of authorize() has been  *)
(* made, so clients can call Get() before the first call completes; the    *)
(* one goroutine the constructor started enters its loop once, with the    *)
(* first call (Token) or the request for the write lock (MToken), and      *)
(* never a second time.                                                    *)
C20_ConstructionNonBlocking ==
    /\ (pc = "start" /\ nStarted = 0 /\ nDone = 0 /\ inflight = 0)
    /\ [][/\ \A c \in Clients :
               (nDone = 0 /\ rpc[c] = "idle") => ENABLED GetBegin(c)
          /\ (pc # "start") => (pc' # "start")
          /\ (pc = "start" /\ pc' # "start") =>
               \/ impl = "Token" /\ pc' = "call" /\ nStarted' = 1
               \/ impl = "MToken" /\ pc' = "locking" /\ nStarted' = 0
         ]_vars

(* C20: a client is in Get() on the cell it was given while the first call *)
(* of authorize() has not returned.                                        *)
C20_Witness ==
    /\ nDone = 0
    /\ pc \in {"start", "call", "locking"}
    /\ \E c \in Clients : rpc[c] = "waiting"

----------------------------------------------------------------------------
(* C21: Token and MToken answer alike: in either, a Get() returns only     *)
(* when a call of authorize() has returned and none is running, and what   *)
(* it returns is the result of the call that returned last.                *)
C21_SameAnswers ==
    [][\A c \in Clients :
         /\ (impl = "Token" /\ Served(c)) =>
              (nDone >= 1 /\ inflight = 0 /\ got'[c] = LastResult)
         /\ (impl = "MToken" /\ Returns(c)) =>
              (nDone >= 1 /\ inflight = 0 /\ got'[c] = LastResult)]_vars

----------------------------------------------------------------------------
(* The slot of a cell on which authorize() has not been called: "", nil.   *)
ZeroSlot == tokenResponse("", Nil)

(* C22: no Get() on an MToken returns before the first call of             *)
(* authorize() has returned, and none returns the zero slot.               *)
C22_InitialTokenSetFirst ==
    [][\A c \in Clients :
         (impl = "MToken" /\ Returns(c)) =>
           (nDone >= 1 /\ got'[c] # ZeroSlot)]_vars

----------------------------------------------------------------------------
(* C23: while a call of authorize() is running no Get() returns and none   *)
(* can: Token's send case and MToken's read lock are both out of reach.    *)
(* A Get() that was pending when a call returned is handed the result of   *)
(* that call or of a later one, never the slot that call replaced.         *)
C23_NoReadDuringCall ==
    [][\A c \in Clients :
         /\ Returns(c) => (inflight = 0 /\ pc # "call")
         /\ (inflight = 1) =>
              /\ ~ENABLED Serve(c)
              /\ ~ENABLED MRLock(c)
              /\ ~ENABLED MGetReturn(c)
         /\ (Returns(c) /\ began[c] < nDone) =>
              (tokenGen = nDone /\ got'[c] = LastResult)]_vars

(* C23: a refresh of an MToken is running with the write lock held while a *)
(* client is in Get().                                                     *)
C23_Witness ==
    /\ impl = "MToken"
    /\ nDone >= 1
    /\ pc = "call"
    /\ mu.w = "held"
    /\ \E c \in Clients : rpc[c] = "waiting" /\ began[c] = nDone

----------------------------------------------------------------------------
(* C24: the loop leaves its select for a refresh only when the timer has   *)
(* fired, and every call of authorize() after the first begins on a step   *)
(* of the loop, no step of a Get(), with the timer fired: when the         *)
(* lifespan exceeds the safety margin, not before lifespan minus margin    *)
(* has passed since the previous call returned.                            *)
C24_TimerDrivesRefresh ==
    [][/\ (pc = "select" /\ pc' \in {"call", "locking"}) => TimerReady
       /\ (nStarted >= 1 /\ nStarted' # nStarted) =>
            /\ nStarted' = nStarted + 1
            /\ ~ClientStep
            /\ TimerReady
            /\ (expiration > lifeSpanSafetyMargin) =>
                 SinceArmed >= expiration - lifeSpanSafetyMargin]_vars

(* C24: a refresh is running that began after the timer of a lifespan      *)
(* above the safety margin had fired, with Get()s made in between.         *)
C24_Witness ==
    /\ nStarted >= 2
    /\ pc = "call"
    /\ expiration > lifeSpanSafetyMargin
    /\ SinceArmed >= expiration - lifeSpanSafetyMargin
    /\ \E c \in Clients : rpc[c] = "returned" /\ got[c] = LastResult

----------------------------------------------------------------------------
(* C25: the step that hands a response to a Get() on a Token is taken at   *)
(* the select and leaves the loop there, with the slot, the lifespan, the  *)
(* timer and the count of calls as they were.                              *)
C25_ServeIsSelfLoop ==
    [][\A c \in Clients :
         Served(c) =>
           /\ pc = "select"
           /\ UNCHANGED <<pc, token, err, expiration, expired, inflight,
                          nStarted, nDone, tokenGen, done>>]_vars

(* C25: a client has been handed a response and the loop is at its select  *)
(* with the timer running on.                                              *)
C25_Witness ==
    /\ impl = "Token"
    /\ pc = "select"
    /\ SinceArmed > 0
    /\ \E c \in Clients : rpc[c] = "returned" /\ got[c] = LastResult

----------------------------------------------------------------------------
(* C26: token and err (Token) or m.token and m.tokenErr (MToken) change    *)
(* only on the step of the loop on which a call of authorize() returns;    *)
(* no step of a Get(), of the timer or of cancellation changes them.       *)
C26_SlotChangesOnReturnOnly ==
    [][(token' # token \/ err' # err) =>
         /\ Completes
         /\ pc = "call"
         /\ pc' = "select"
         /\ token' = lastCall'.tok
         /\ err' = lastCall'.err
         /\ ~ClientStep
         /\ done' = done]_vars

(* C26: a later call has replaced the slot that a client was given, and    *)
(* since then the context has been cancelled and the timer has fired.      *)
C26_Witness ==
    /\ nDone >= 2
    /\ done
    /\ TimerReady
    /\ token = lastCall.tok
    /\ err = lastCall.err
    /\ \E c \in Clients :
         rpc[c] = "returned" /\ got[c].Err # "none" /\ got[c] # LastResult

----------------------------------------------------------------------------
(* The Token loop is at its select with the timer fired and client c       *)
(* receiving: both the send case and case <-expired can proceed.           *)
Tie(c) ==
    /\ impl = "Token"
    /\ pc = "select"
    /\ TimerReady
    /\ rpc[c] = "waiting"

(* C27: at a tie the loop can take either case next: the hand-off of the   *)
(* slot as it is, before the refresh, and the refresh, with the reader     *)
(* left pending (while the model's MaxCalls allows another call).          *)
C27_TieBreak ==
    \A c \in Clients :
      (Tie(c) /\ nStarted < MaxCalls) => (ENABLED Serve(c) /\ ENABLED Expired)

(* C27: a tie after a call that returned a token, with no cancellation.    *)
C27_Witness ==
    /\ ~done
    /\ nDone >= 1
    /\ nStarted < MaxCalls
    /\ lastCall.err = Nil
    /\ \E c \in Clients : Tie(c)

----------------------------------------------------------------------------
(* C28: once refreshToken has returned (Token or MToken) the loop stays    *)
(* stopped: it begins and completes no call of authorize(), changes        *)
(* neither the slot nor the timer, and hands no response to a client.      *)
C28_StoppedIsTerminal ==
    [][(pc = "stopped") =>
         /\ pc' = "stopped"
         /\ UNCHANGED <<token, err, expiration, expired, inflight, nStarted,
                        nDone, tokenGen, lastCall, done>>
         /\ \A c \in Clients : ~Served(c)]_vars

(* C28: the loop has returned after serving, and a client calls Get().     *)
C28_Witness ==
    /\ pc = "stopped"
    /\ nDone >= 1
    /\ \E c \in Clients : rpc[c] = "waiting"
    /\ \E c \in Clients : rpc[c] = "returned"

----------------------------------------------------------------------------
(* What the call of authorize() that returns on this step has returned.    *)
Returned == [tok |-> token', life |-> expiration', err |-> err']

(* C29: every call of authorize() that a cell makes is a call of the       *)
(* function passed to its constructor: what it returns is a result of      *)
(* that function (AuthResults), for Token and for MToken.                  *)
C29_CallsPassedAuth ==
    [][Completes => Returned \in AuthResults]_vars

----------------------------------------------------------------------------
----------------------------------------------------------------------------
(* C31: a call of authorize() that is running is not cut short by          *)
(* cancellation: from the call the loop (Token or MToken) goes to its      *)
(* select only, on the step on which the call returns, with the slot       *)
(* overwritten by the call's result and the timer set; the loop stops from *)
(* the select only.                                                        *)
C31_CallOutlivesCancel ==
    [][/\ (pc = "call" /\ pc' # "call") =>
            /\ pc' = "select"
            /\ Completes
            /\ token' = lastCall'.tok
            /\ err' = lastCall'.err
            /\ expired' = After(expiration' - lifeSpanSafetyMargin)
       /\ (pc # "stopped" /\ pc' = "stopped") => (pc = "select" /\ done)
      ]_vars

(* C31: the context is cancelled and a call of authorize(), not the first, *)
(* is running.                                                             *)
C31_Witness ==
    /\ done
    /\ pc = "call"
    /\ inflight = 1
    /\ nDone >= 1

----------------------------------------------------------------------------
(* Client c is in Get() on a Token whose loop has returned.                *)
Stuck(c) == impl = "Token" /\ pc = "stopped" /\ rpc[c] = "waiting"

(* C32: on a Token whose loop has returned, a client can still call Get(), *)
(* and a Get() that is pending stays pending on every step, with no        *)
(* response and no error delivered: it never returns.                      *)
C32_GetBlocksAfterStop ==
    [][\A c \in Clients :
         /\ (impl = "Token" /\ pc = "stopped" /\ rpc[c] # "waiting") =>
              ENABLED GetBegin(c)
         /\ Stuck(c) =>
              /\ Stuck(c)'
              /\ got'[c] = NoResponse
              /\ ~ENABLED Serve(c)]_vars

(* C32: every client is in a Get() on a Token whose loop has returned.     *)
C32_Witness ==
    /\ nDone >= 1
    /\ \A c \in Clients : Stuck(c) /\ got[c] = NoResponse

----------------------------------------------------------------------------
(* C33: on an MToken whose loop has returned the mutex stays free, so a    *)
(* Get() is never held up: it can take the read lock and can return, and   *)
(* what it returns is the slot that the last call of authorize() wrote,    *)
(* with that call's error and no other.                                    *)
C33_GetAfterStopReturnsLast ==
    [][(impl = "MToken" /\ pc = "stopped") =>
         /\ nDone >= 1
         /\ mu.w = "free"
         /\ \A c \in Clients :
              /\ (rpc[c] = "waiting") => ENABLED MRLock(c)
              /\ (rpc[c] = "reading") => ENABLED MGetReturn(c)
              /\ Returns(c) =>
                   (got'[c] = LastResult /\ got'[c] = tokenResponse(token, err))
      ]_vars

(* C33: every client has got the last slot from an MToken whose loop has   *)
(* returned after more than one call.                                      *)
C33_Witness ==
    /\ impl = "MToken"
    /\ pc = "stopped"
    /\ nDone >= 2
    /\ \A c \in Clients : rpc[c] = "returned" /\ got[c] = LastResult

----------------------------------------------------------------------------
(* The clients whose Get() has returned.                                   *)
ReturnedClients == {c \in Clients : rpc[c] = "returned"}

(* C34: a step that hands off a response on a Token serves one client: it  *)
(* alone returns, with the response sent, and every other client, pending  *)
(* or not, is left as it was; a response once received is not replaced     *)
(* until that client calls Get() again.                                    *)
C34_OneHandoffOneReader ==
    [][/\ \A c \in Clients :
            Served(c) =>
              /\ got'[c] = tokenResponse(token, err)
              /\ \A d \in Clients \ {c} :
                   rpc'[d] = rpc[d] /\ got'[d] = got[d] /\ began'[d] = began[d]
              /\ Cardinality(ReturnedClients') =
                   Cardinality(ReturnedClients) + 1
       /\ \A c \in Clients :
            (rpc[c] = "returned" /\ rpc'[c] = "returned") => got'[c] = got[c]
      ]_vars

(* C34: of two clients pending at once, one has been served and the other, *)
(* pending since before the first call returned, still waits.              *)
C34_Witness ==
    /\ impl = "Token"
    /\ nDone = 1
    /\ \E c, d \in Clients :
         /\ rpc[c] = "returned" /\ got[c] = LastResult
         /\ rpc[d] = "waiting" /\ began[d] = 0

----------------------------------------------------------------------------
(* The version of Token without a context: refreshToken() is the same loop *)
(* with the send case and case <-expired only, and nothing cancels it.     *)
NoCtxNext ==
    \/ Start
    \/ \E res \in AuthResults : AuthorizeReturn(res)
    \/ Expired
    \/ \E c \in Clients : Serve(c)
    \/ \E c \in Clients : GetBegin(c)
    \/ Tick

NoCtxSpec == TokenInit /\ [][NoCtxNext]_vars

(* C35: the loop of the version without a context never returns: it is     *)
(* about to make or is making a call of authorize(), or is at its select,  *)
(* whatever the calls return.                                              *)
C35_NeverStops ==
    /\ pc \in {"start", "call", "select"}
    /\ pc # "stopped"
    /\ ~done

(* C35: the loop is at its select after every call allowed has returned    *)
(* an error.                                                               *)
C35_Witness ==
    /\ pc = "select"
    /\ nDone = MaxCalls
    /\ lastCall.err \in Errors
    /\ err \in Errors

----------------------------------------------------------------------------
(* The singleflight draft: APIClient with a tokenResponse channel *)

lifeSpan == 100

(* What the draft's authorize() returns: a fresh token, or "randError" /    *)
(* "tempError" with an error, and always lifeSpan.                          *)
flightAuthorize ==
    {[tok |-> t, life |-> lifeSpan, err |-> Nil] : t \in Tokens}
        \cup {[tok |-> "randError", life |-> lifeSpan, err |-> "E1"],
              [tok |-> "tempError", life |-> lifeSpan, err |-> "E2"]}

(* NewAPIClient has returned: the goroutine is started, it has not run. *)
FlightInit ==
    /\ impl = "Singleflight"
    /\ pc = "start"
    /\ token = ""
    /\ err = Nil
    /\ expiration = 0
    /\ expired = 0
    /\ done = FALSE
    /\ mu = [w |-> "free", readers |-> {}]
    /\ inflight = 0
    /\ nStarted = 0
    /\ nDone = 0
    /\ tokenGen = 0
    /\ lastCall = NoCall
    /\ rpc = [c \in Clients |-> "idle"]
    /\ began = [c \in Clients |-> 0]
    /\ got = [c \in Clients |-> NoResponse]
    /\ recording = FALSE
    /\ shown = "none"
    /\ firstOk = 0
    /\ clock = 0
    /\ errCh = <<>>

(* expired := time.After(0): the loop is entered with a timer that fires   *)
(* at once and with the zero token.                                        *)
FlightStart ==
    /\ impl = "Singleflight"
    /\ pc = "start"
    /\ pc' = "select"
    /\ expired' = After(0)
    /\ UNCHANGED <<impl, errCh, token, err, expiration, done, mu, inflight, nStarted,
                   nDone, tokenGen, lastCall, rpc, began, got, hist>>

(* case <-expired: g.Do calls authorize() in the loop's goroutine. *)
FlightExpired ==
    /\ impl = "Singleflight"
    /\ pc = "select"
    /\ TimerReady
    /\ nStarted < MaxCalls
    /\ pc' = "call"
    /\ inflight' = inflight + 1
    /\ nStarted' = nStarted + 1
    /\ UNCHANGED <<impl, errCh, token, err, expiration, expired, done, mu, nDone,
                   tokenGen, lastCall, rpc, began, got, hist>>

(* Variant: the error is offered without blocking (select with default),   *)
(* and the timer is armed whether or not a caller took it.                 *)
FlightAuthorizeReturnNoWait(res) ==
    /\ impl = "Singleflight"
    /\ pc = "call"
    /\ token' = res.tok
    /\ expiration' = res.life
    /\ err' = res.err
    /\ pc' = "select"
    /\ expired' = After((res.life * 9) \div 10)
    /\ inflight' = inflight - 1
    /\ nDone' = nDone + 1
    /\ tokenGen' = nDone + 1
    /\ lastCall' = [tok |-> res.tok, err |-> res.err]
    /\ UNCHANGED <<impl, errCh, done, mu, nStarted, rpc, began, got, hist>>

(* g.Do returns: token and expiration are assigned; on an error the loop   *)
(* goes to the send of line 158 with the old timer, else it arms the new   *)
(* timer and selects again.                                                *)
FlightAuthorizeReturn(res) ==
    /\ impl = "Singleflight"
    /\ pc = "call"
    /\ token' = res.tok
    /\ expiration' = res.life
    /\ err' = res.err
    /\ IF res.err # Nil
       THEN pc' = "sending" /\ expired' = expired
       ELSE pc' = "select" /\ expired' = After((res.life * 9) \div 10)
    /\ inflight' = inflight - 1
    /\ nDone' = nDone + 1
    /\ tokenGen' = nDone + 1
    /\ lastCall' = [tok |-> res.tok, err |-> res.err]
    /\ UNCHANGED <<impl, errCh, done, mu, nStarted, rpc, began, got, hist>>

(* a.tok <- tokenResponse{Token: token, Err: err} meets a token() that is  *)
(* receiving; then expired = time.After(expiration * 9 / 10).              *)
FlightSendErr(c) ==
    /\ impl = "Singleflight"
    /\ pc = "sending"
    /\ rpc[c] = "waiting"
    /\ got' = [got EXCEPT ![c] = tokenResponse(token, err)]
    /\ rpc' = [rpc EXCEPT ![c] = "returned"]
    /\ began' = [began EXCEPT ![c] = 0]
    /\ pc' = "select"
    /\ expired' = After((expiration * 9) \div 10)
    /\ UNCHANGED <<impl, errCh, token, err, expiration, done, mu, inflight, nStarted,
                   nDone, tokenGen, lastCall, hist>>

(* case a.tok <- tokenResponse{Token: token}: the Err field is nil. *)
FlightServe(c) ==
    /\ impl = "Singleflight"
    /\ pc = "select"
    /\ rpc[c] = "waiting"
    /\ got' = [got EXCEPT ![c] = tokenResponse(token, Nil)]
    /\ rpc' = [rpc EXCEPT ![c] = "returned"]
    /\ began' = [began EXCEPT ![c] = 0]
    /\ UNCHANGED <<impl, errCh, pc, token, err, expiration, expired, done, mu,
                   inflight, nStarted, nDone, tokenGen, lastCall, hist>>

FlightNext ==
    \/ FlightStart
    \/ FlightExpired
    \/ \E res \in flightAuthorize : FlightAuthorizeReturn(res)
    \/ \E c \in Clients : FlightSendErr(c)
    \/ \E c \in Clients : FlightServe(c)
    \/ \E c \in Clients : GetBegin(c)
    \/ Tick

FlightSpec == FlightInit /\ [][FlightNext]_vars

----------------------------------------------------------------------------
(* C36: in the singleflight draft a fetch that returns an error takes the   *)
(* loop to the blocking send inside the timer branch; while the loop is at  *)
(* that send it arms no timer and starts no fetch, and it leaves the send   *)
(* only by handing the error to exactly one token() caller, after which the *)
(* new timer is armed; every token() served by the select's send case gets  *)
(* a nil error.                                                             *)
C36_ErrorToOneCaller ==
    [][ /\ (Completes /\ err' # Nil) =>
            /\ pc' = "sending"
            /\ UNCHANGED <<expired, rpc, got>>
        /\ pc = "sending" =>
            \/ /\ pc' = "sending"
               /\ UNCHANGED <<expired, nStarted, inflight, token, err>>
               /\ \A c \in Clients : ~Returns(c)
            \/ /\ pc' = "select"
               /\ err \in Errors
               /\ expired' = After((expiration * 9) \div 10)
               /\ UNCHANGED <<nStarted, inflight, token, err>>
               /\ \E c \in Clients :
                     /\ Returns(c)
                     /\ got'[c] = tokenResponse(token, err)
                     /\ \A d \in Clients \ {c} :
                           rpc'[d] = rpc[d] /\ got'[d] = got[d]
        /\ \A c \in Clients :
              (Returns(c) /\ pc # "sending") => got'[c].Err = Nil
      ]_vars

(* After a failed fetch one caller holds its error and another, served      *)
(* before the next fetch, holds the same token with a nil error.           *)
C36_Witness ==
    /\ impl = "Singleflight"
    /\ pc = "select"
    /\ err \in Errors
    /\ token \in {"randError", "tempError"}
    /\ \E c \in Clients : \E d \in Clients \ {c} :
          /\ rpc[c] = "returned"
          /\ rpc[d] = "returned"
          /\ got[c] = tokenResponse(token, err)
          /\ got[d] = tokenResponse(token, Nil)

----------------------------------------------------------------------------
(* The earliest draft: APIClient with separate tok and err channels *)

(* What the draft's authorize() returns: a token that lives 1 second, with *)
(* the error of rand.Read if it failed, or "" and 0 with a random error.   *)
earlyAuthorize ==
    {[tok |-> t, life |-> 1, err |-> e] : t \in Tokens, e \in {Nil, "E1"}}
        \cup {[tok |-> "", life |-> 0, err |-> "E2"]}

(* NewAPIClient has returned: tok is unbuffered, err has room for one      *)
(* error and is empty, the goroutine is started and has not run.           *)
EarlyInit ==
    /\ impl = "Earliest"
    /\ pc = "start"
    /\ token = ""
    /\ err = Nil
    /\ expiration = 0
    /\ expired = 0
    /\ done = FALSE
    /\ mu = [w |-> "free", readers |-> {}]
    /\ inflight = 0
    /\ nStarted = 0
    /\ nDone = 0
    /\ tokenGen = 0
    /\ lastCall = NoCall
    /\ rpc = [c \in Clients |-> "idle"]
    /\ began = [c \in Clients |-> 0]
    /\ got = [c \in Clients |-> NoResponse]
    /\ recording = FALSE
    /\ shown = "none"
    /\ firstOk = 0
    /\ clock = 0
    /\ errCh = <<>>

(* expired := time.After(0) *)
EarlyStart ==
    /\ impl = "Earliest"
    /\ pc = "start"
    /\ pc' = "select"
    /\ expired' = After(0)
    /\ UNCHANGED <<impl, errCh, token, err, expiration, done, mu, inflight,
                   nStarted, nDone, tokenGen, lastCall, rpc, began, got, hist>>

(* case <-expired: authorize() is called in the loop's goroutine. *)
EarlyExpired ==
    /\ impl = "Earliest"
    /\ pc = "select"
    /\ TimerReady
    /\ nStarted < MaxCalls
    /\ pc' = "call"
    /\ inflight' = inflight + 1
    /\ nStarted' = nStarted + 1
    /\ UNCHANGED <<impl, errCh, token, err, expiration, expired, done, mu,
                   nDone, tokenGen, lastCall, rpc, began, got, hist>>

(* Variant: the loop goes on after an error; it puts the error into the    *)
(* buffer if there is room and arms the timer.                             *)
EarlyAuthorizeReturnGoOn(res) ==
    /\ impl = "Earliest"
    /\ pc = "call"
    /\ token' = res.tok
    /\ expiration' = res.life
    /\ err' = res.err
    /\ errCh' = IF res.err # Nil /\ errCh = <<>> THEN <<res.err>> ELSE errCh
    /\ pc' = "select"
    /\ expired' = After(res.life * 1000 - 100)
    /\ inflight' = inflight - 1
    /\ nDone' = nDone + 1
    /\ tokenGen' = nDone + 1
    /\ lastCall' = [tok |-> res.tok, err |-> res.err]
    /\ UNCHANGED <<impl, done, mu, nStarted, rpc, began, got, hist>>

(* authorize() returns.  On an error: token = "ERROR", the error goes into *)
(* the empty buffer of a.err and refreshToken returns.  Otherwise the new  *)
(* timer is armed and the loop selects again.                              *)
EarlyAuthorizeReturn(res) ==
    /\ impl = "Earliest"
    /\ pc = "call"
    /\ expiration' = res.life
    /\ err' = res.err
    /\ IF res.err # Nil
       THEN /\ token' = "ERROR"
            /\ errCh' = Append(errCh, res.err)
            /\ pc' = "exited"
            /\ expired' = expired
       ELSE /\ token' = res.tok
            /\ errCh' = errCh
            /\ pc' = "select"
            /\ expired' = After(res.life * 1000 - 100)
    /\ inflight' = inflight - 1
    /\ nDone' = nDone + 1
    /\ tokenGen' = nDone + 1
    /\ lastCall' = [tok |-> res.tok, err |-> res.err]
    /\ UNCHANGED <<impl, done, mu, nStarted, rpc, began, got, hist>>

(* case a.tok <- token meets a token() that is receiving from a.tok. *)
EarlyServe(c) ==
    /\ impl = "Earliest"
    /\ pc = "select"
    /\ rpc[c] = "waiting"
    /\ got' = [got EXCEPT ![c] = tokenResponse(token, Nil)]
    /\ rpc' = [rpc EXCEPT ![c] = "returned"]
    /\ began' = [began EXCEPT ![c] = 0]
    /\ UNCHANGED <<impl, errCh, pc, token, err, expiration, expired, done, mu,
                   inflight, nStarted, nDone, tokenGen, lastCall, hist>>

(* token() is entered and evaluates len(a.err) > 0: the caller goes on to  *)
(* receive from a.err ("errwait") or from a.tok ("waiting").              *)
EarlyTokenBegin(c) ==
    /\ impl = "Earliest"
    /\ rpc[c] \in {"idle", "returned"}
    /\ rpc' = [rpc EXCEPT ![c] = IF Len(errCh) > 0 THEN "errwait" ELSE "waiting"]
    /\ began' = [began EXCEPT ![c] = nDone]
    /\ got' = [got EXCEPT ![c] = NoResponse]
    /\ UNCHANGED <<impl, errCh, pc, token, err, expiration, expired, done, mu,
                   inflight, nStarted, nDone, tokenGen, lastCall, hist>>

(* return "", <-a.err: the receive takes the buffered error. *)
EarlyRecvErr(c) ==
    /\ impl = "Earliest"
    /\ rpc[c] = "errwait"
    /\ Len(errCh) > 0
    /\ got' = [got EXCEPT ![c] = tokenResponse("", Head(errCh))]
    /\ errCh' = Tail(errCh)
    /\ rpc' = [rpc EXCEPT ![c] = "returned"]
    /\ began' = [began EXCEPT ![c] = 0]
    /\ UNCHANGED <<impl, pc, token, err, expiration, expired, done, mu,
                   inflight, nStarted, nDone, tokenGen, lastCall, hist>>

EarlyNext ==
    \/ EarlyStart
    \/ EarlyExpired
    \/ \E res \in earlyAuthorize : EarlyAuthorizeReturn(res)
    \/ \E c \in Clients : EarlyServe(c)
    \/ \E c \in Clients : EarlyTokenBegin(c)
    \/ \E c \in Clients : EarlyRecvErr(c)
    \/ Tick

EarlySpec == EarlyInit /\ [][EarlyNext]_vars

----------------------------------------------------------------------------
(* C37: in the earliest draft a call of authorize() that returns an error  *)
(* puts the error into the err buffer and ends the loop for good (no later *)
(* call, no later hand-off of a token); a token() returns an error only by *)
(* taking that one buffered error, so at most one does; and once the       *)
(* buffer is empty again no token() returns any more: callers that begin   *)
(* afterwards wait on tok, and a caller that saw len(err) > 0 and found    *)
(* the buffer emptied by another stays at its receive from err.            *)
C37_ErrorEndsLoop ==
    [][ /\ (Completes /\ err' # Nil) =>
            /\ pc' = "exited"
            /\ errCh' = <<err'>>
        /\ pc = "exited" =>
            /\ pc' = "exited"
            /\ UNCHANGED <<nStarted, nDone, inflight, token, err>>
            /\ errCh' \in {errCh, <<>>}
        /\ \A c \in Clients :
              (Returns(c) /\ got'[c].Err # Nil) =>
                  /\ pc = "exited"
                  /\ errCh = <<err>>
                  /\ got'[c] = tokenResponse("", err)
                  /\ errCh' = <<>>
                  /\ \A d \in Clients \ {c} : ~Returns(d)
        /\ (pc = "exited" /\ errCh = <<>>) =>
              \A c \in Clients :
                  /\ ~Returns(c)
                  /\ rpc[c] \in {"waiting", "errwait"} => rpc'[c] = rpc[c]
      ]_vars

(* The loop has exited and the error has been taken; one caller that saw   *)
(* the error buffered waits on err, and one that began after the error     *)
(* was taken waits on tok.                                                 *)
C37_Witness ==
    /\ impl = "Earliest"
    /\ pc = "exited"
    /\ errCh = <<>>
    /\ \E c \in Clients : \E d \in Clients \ {c} :
          /\ rpc[c] = "errwait"
          /\ rpc[d] = "waiting"
          /\ began[d] = nDone

====
